---- MODULE Spec2Model ----
(***************************************************************************)
(* A model of the DOCX -> MDX converter (index.js) and of its upload       *)
(* server (server.js).  Text is a sequence of one-character strings, so    *)
(* that the regular-expression rewrites of the post-processor and the      *)
(* path functions are computed character by character.                     *)
(***************************************************************************)
EXTENDS Integers, Sequences, FiniteSets, TLC

VARIABLES
    ppIn,       \* post-processor: the markdown handed to postProcessForMdx
    ppOut,      \* post-processor: postProcessForMdx(ppIn)
    ppTwice,    \* post-processor: postProcessForMdx(ppOut)
    ppPc,       \* post-processor: "idle" | "ready" | "once" | "twice"
    fmPath,     \* front matter: originalPath
    fmBody,     \* front matter: content
    fmNow,      \* front matter: new Date().toISOString() at the call
    fmOut,      \* front matter: the text addMdxFrontmatter returned
    fmPc,       \* front matter: "idle" | "ready" | "done"
    cvMode,     \* converter: "idle" | "single" (convertDocxToMdx) | "batch"
    cvListing,  \* converter: what fs.readdir(inputDir) yields
    cvOutDir,   \* converter: outputDir, <<>> when not given
    cvDocx,     \* converter: docxFiles
    cvIdx,      \* converter: the position of `file` in docxFiles
    cvPc,       \* converter: the pending step, or "returned" | "thrown"
    cvIn,       \* converter: inputPath of the running convertDocxToMdx
    cvOut,      \* converter: outputPath of the running call, <<>> when null
    cvMd,       \* converter: markdown of the running call
    cvOutputPaths, \* converter: outputPaths
    cvFiles,    \* converter: the destination files on disk, path -> content
    cvDirs,     \* converter: the directories fs.mkdir has made
    cvLog,      \* converter: the calls made and the lines logged, in order
    cvResult,   \* converter: the value the top-level call resolved with
    cvThrown,   \* converter: the error the top-level call rejected with
    cvNow,      \* converter: new Date().toISOString()
    svClock,    \* server: Date.now()
    svPc,       \* server: per request, the pending step or "answered"
    svName,     \* server: per request, req.file.originalname
    svHasFile,  \* server: per request, whether multer stored a file
    svUp,       \* server: per request, req.file.path
    svOutPath,  \* server: per request, outputPath
    svData,     \* server: per request, the document the extractor read
    svBody,     \* server: per request, mdxContent
    svFs,       \* server: the files of uploads/, path -> owner and data
    svSent,     \* server: per request, the response sent
    svTaken     \* server: <<r, o>> when r unlinked a file of in-flight o

ppVars == <<ppIn, ppOut, ppTwice, ppPc>>

fmVars == <<fmPath, fmBody, fmNow, fmOut, fmPc>>

cvVars == <<cvMode, cvListing, cvOutDir, cvDocx, cvIdx, cvPc, cvIn, cvOut, cvMd,
            cvOutputPaths, cvFiles, cvDirs, cvLog, cvResult, cvThrown, cvNow>>

svVars == <<svClock, svPc, svName, svHasFile, svUp, svOutPath, svData, svBody,
            svFs, svSent, svTaken>>

vars == <<ppVars, fmVars, cvVars, svVars>>

\* A component that a specification does not exercise stays idle
PostIdle == ppIn = <<>> /\ ppOut = <<>> /\ ppTwice = <<>> /\ ppPc = "idle"

FmIdle ==
    fmPath = <<>> /\ fmBody = <<>> /\ fmNow = <<>> /\ fmOut = <<>> /\ fmPc = "idle"

CvIdle ==
    /\ cvMode = "idle" /\ cvListing = <<>> /\ cvOutDir = <<>> /\ cvDocx = <<>>
    /\ cvIdx = 0 /\ cvPc = "idle" /\ cvIn = <<>> /\ cvOut = <<>> /\ cvMd = <<>>
    /\ cvOutputPaths = <<>> /\ cvFiles = <<>> /\ cvDirs = {} /\ cvLog = <<>>
    /\ cvResult = <<>> /\ cvThrown = "none" /\ cvNow = <<>>

SvIdle ==
    /\ svClock = 0 /\ svPc = <<>> /\ svName = <<>> /\ svHasFile = <<>>
    /\ svUp = <<>> /\ svOutPath = <<>> /\ svData = <<>> /\ svBody = <<>>
    /\ svFs = <<>> /\ svSent = <<>> /\ svTaken = {}

(***************************************************************************)
(* Characters and generic sequence helpers                                 *)
(***************************************************************************)
NL == "\n"

\* The backtick, which a TLA+ string cannot hold, is written as an apostrophe
BT == "'"

CR == "\r"

\* The line terminators of the regular expressions (for ^, $ and .),
\* restricted to the characters of the model
LineTerm == {NL, CR}

\* \s of the regular expressions, restricted to the characters of the model
Space == {" ", NL, CR}

\* \w of the regular expressions, restricted to the characters of the model
WordChars == {"a", "b", "c", "d", "o", "x", "t", "m", "e", "p",
              "B", "C", "D", "O", "X"}

SetMin(S) == CHOOSE x \in S : \A y \in S : x <= y

SetMax(S) == CHOOSE x \in S : \A y \in S : x >= y

\* The first index j >= i of s whose character is outside `set`
\* (Len(s) + 1 when the run reaches the end): the end of a greedy c* from i.
SpanEnd(s, i, set) ==
    LET stops == {j \in i..Len(s) : s[j] \notin set}
    IN  IF stops = {} THEN Len(s) + 1 ELSE SetMin(stops)

\* s[i..j-1]
Slice(s, i, j) == IF j <= i THEN <<>> ELSE SubSeq(s, i, j - 1)

\* ^ with the m flag: the start of the text or the position after a line
\* terminator
AtLineStart(s, i) == i = 1 \/ s[i - 1] \in LineTerm

\* The end of the line that holds position p: the greedy .+ followed by $
LineEnd(s, p) ==
    LET ends == {j \in p..Len(s) : s[j] \in LineTerm}
    IN  IF ends = {} THEN Len(s) + 1 ELSE SetMin(ends)

RECURSIVE Flatten(_)
Flatten(ss) == IF ss = <<>> THEN <<>> ELSE Head(ss) \o Flatten(Tail(ss))

(***************************************************************************)
(* path.extname and path.basename (POSIX), as index.js uses them           *)
(***************************************************************************)
\* The last component of a path, trailing slashes dropped
LastComponent(path) ==
    LET solid == {j \in 1..Len(path) : path[j] # "/"}
        end == SetMax(solid)
        cuts == {j \in 1..end : path[j] = "/"}
        start == IF cuts = {} THEN 1 ELSE SetMax(cuts) + 1
    IN  IF solid = {} THEN <<>> ELSE SubSeq(path, start, end)

\* path.extname: from the last '.' of the last component to its end; empty
\* when there is no '.', when the only '.' is its first character, and for '..'
ExtName(path) ==
    LET base == LastComponent(path)
        dots == {j \in 1..Len(base) : base[j] = "."}
        startDot == SetMax(dots)
    IN  IF dots = {} \/ startDot = 1 \/ base = <<".", ".">>
        THEN <<>>
        ELSE SubSeq(base, startDot, Len(base))

EndsWith(s, suffix) ==
    /\ Len(suffix) <= Len(s)
    /\ SubSeq(s, Len(s) - Len(suffix) + 1, Len(s)) = suffix

\* path.basename(path, ext): the last component, without ext when it ends
\* with ext and is longer than ext
BaseName(path, ext) ==
    LET base == LastComponent(path)
    IN  IF ext # <<>> /\ Len(base) > Len(ext) /\ EndsWith(base, ext)
        THEN SubSeq(base, 1, Len(base) - Len(ext))
        ELSE base

\* path.join of a directory and an entry name
PathJoin(dir, name) == dir \o <<"/">> \o name

(***************************************************************************)
(* postProcessForMdx, index.js 101-114                                     *)
(***************************************************************************)
\* .replace(/\n{3,}/g, '\n\n'), scanning from position i
RECURSIVE CollapseFrom(_, _)
CollapseFrom(s, i) ==
    IF i > Len(s) THEN <<>>
    ELSE LET e == SpanEnd(s, i, {NL})
         IN  IF e - i >= 3
             THEN <<NL, NL>> \o CollapseFrom(s, e)
             ELSE <<s[i]>> \o CollapseFrom(s, i + 1)

\* The blank-line collapse left out
CollapseNothing(s) == s

CollapseBlankLines(s) == CollapseFrom(s, 1)

\* .replace(/```(\w+)?\n\n/g, '```$1\n'), scanning from position i
RECURSIVE FenceFrom(_, _)
FenceFrom(s, i) ==
    IF i > Len(s) THEN <<>>
    ELSE LET w == SpanEnd(s, i + 3, WordChars)
             hit == /\ i + 2 <= Len(s)
                    /\ s[i] = BT /\ s[i + 1] = BT /\ s[i + 2] = BT
                    /\ w + 1 <= Len(s)
                    /\ s[w] = NL /\ s[w + 1] = NL
         IN  IF hit
             THEN Slice(s, i, w + 1) \o FenceFrom(s, w + 2)
             ELSE <<s[i]>> \o FenceFrom(s, i + 1)

FixCodeFences(s) == FenceFrom(s, 1)

\* .replace(/^(\s*)-\s*\n/gm, '$1- '), scanning from position i.
\* (\s*) is greedy and must be followed by '-'; the second \s* is greedy and
\* backtracks to the last newline of the whitespace run after the '-'.
RECURSIVE ListFrom(_, _)
ListFrom(s, i) ==
    IF i > Len(s) THEN <<>>
    ELSE LET j == SpanEnd(s, i, Space)
             k == SpanEnd(s, j + 1, Space)
             nls == {p \in (j + 1)..(k - 1) : s[p] = NL}
             hit == /\ AtLineStart(s, i)
                    /\ j <= Len(s)
                    /\ s[j] = "-"
                    /\ nls # {}
         IN  IF hit
             THEN Slice(s, i, j) \o <<"-", " ">> \o ListFrom(s, SetMax(nls) + 1)
             ELSE <<s[i]>> \o ListFrom(s, i + 1)

FixListItems(s) == ListFrom(s, 1)

\* {1,6} of the heading expression
MaxHeadingLevel == 6

\* .replace(/^(#{1,6})\s+(.+)$/gm, '$1 $2'), scanning from position i.
\* #{1,6} must take the whole run of '#'; \s+ is greedy and backtracks until
\* the character after it can start (.+), which then runs to the line's end.
RECURSIVE HeadingFrom(_, _)
HeadingFrom(s, i) ==
    IF i > Len(s) THEN <<>>
    ELSE LET h == SpanEnd(s, i, {"#"})
             k == SpanEnd(s, h, Space)
             starts == {p \in (h + 1)..k : p <= Len(s) /\ s[p] \notin LineTerm}
             hit == /\ AtLineStart(s, i)
                    /\ h - i >= 1
                    /\ h - i <= MaxHeadingLevel
                    /\ starts # {}
             p == SetMax(starts)
             e == LineEnd(s, p)
         IN  IF hit
             THEN Slice(s, i, h) \o <<" ">> \o Slice(s, p, e) \o HeadingFrom(s, e)
             ELSE <<s[i]>> \o HeadingFrom(s, i + 1)

FixHeadings(s) == HeadingFrom(s, 1)

\* String.prototype.trim
Trim(s) ==
    LET keep == {j \in 1..Len(s) : s[j] \notin Space}
    IN  IF keep = {} THEN <<>> ELSE SubSeq(s, SetMin(keep), SetMax(keep))

\* The rules in another order: the code-fence fix before the blank-line collapse
postProcessFenceFirst(markdown) ==
    Trim(FixHeadings(FixListItems(CollapseBlankLines(FixCodeFences(markdown)))))

postProcessForMdx(markdown) ==
    Trim(FixHeadings(FixListItems(FixCodeFences(CollapseBlankLines(markdown)))))

(***************************************************************************)
(* The markdown texts the post-processor is applied to                     *)
(***************************************************************************)
MaxTok == 5

Tokens == {<<NL>>, <<CR>>, <<" ">>, <<"#">>, <<"-">>, <<BT, BT, BT>>, <<"a">>}

Markdowns == {Flatten(ts) : ts \in UNION {[1..n -> Tokens] : n \in 0..MaxTok}}

PostInit ==
    /\ ppIn \in Markdowns
    /\ ppOut = <<>>
    /\ ppTwice = <<>>
    /\ ppPc = "ready"
    /\ FmIdle
    /\ CvIdle
    /\ SvIdle

\* markdown = this.postProcessForMdx(markdown)
PostProcess ==
    /\ ppPc = "ready"
    /\ ppOut' = postProcessForMdx(ppIn)
    /\ ppPc' = "once"
    /\ UNCHANGED <<ppIn, ppTwice, fmVars, cvVars, svVars>>

\* the post-processor applied to its own output
PostProcessAgain ==
    /\ ppPc = "once"
    /\ ppTwice' = postProcessForMdx(ppOut)
    /\ ppPc' = "twice"
    /\ UNCHANGED <<ppIn, ppOut, fmVars, cvVars, svVars>>

PostNext == PostProcess \/ PostProcessAgain

SpecPost == PostInit /\ [][PostNext]_vars

(***************************************************************************)
(* addMdxFrontmatter, index.js 116-127                                     *)
(***************************************************************************)
\* new Date().toISOString().split('T')[0]
DatePart(iso) ==
    LET ts == {j \in 1..Len(iso) : iso[j] = "T"}
    IN  IF ts = {} THEN iso ELSE Slice(iso, 1, SetMin(ts))

Delimiter == <<"-", "-", "-">>

TitleKey == <<"t", "i", "t", "l", "e", ":", " ">>

DescriptionLine ==
    <<"d", "e", "s", "c", "r", "i", "p", "t", "i", "o", "n", ":", " ", "\"",
      "C", "o", "n", "v", "e", "r", "t", "e", "d", " ", "f", "r", "o", "m", " ",
      "D", "O", "C", "X", " ", "f", "i", "l", "e", "\"">>

DateKey == <<"d", "a", "t", "e", ":", " ">>

Quoted(s) == <<"\"">> \o s \o <<"\"">>

\* The template with the blank line after the closing delimiter left out
addMdxFrontmatterNoBlank(content, originalPath, iso) ==
    LET fileName == BaseName(originalPath, ExtName(originalPath))
    IN  Delimiter \o <<NL>>
        \o TitleKey \o Quoted(fileName) \o <<NL>>
        \o DescriptionLine \o <<NL>>
        \o DateKey \o Quoted(DatePart(iso)) \o <<NL>>
        \o Delimiter \o <<NL>>
        \o content

addMdxFrontmatter(content, originalPath, iso) ==
    LET fileName == BaseName(originalPath, ExtName(originalPath))
        frontmatter == Delimiter \o <<NL>>
                       \o TitleKey \o Quoted(fileName) \o <<NL>>
                       \o DescriptionLine \o <<NL>>
                       \o DateKey \o Quoted(DatePart(iso)) \o <<NL>>
                       \o Delimiter \o <<NL>>
                       \o <<NL>>
    IN  frontmatter \o content

(***************************************************************************)
(* The calls of the front-matter composer                                  *)
(***************************************************************************)
MaxBody == 3

BodyChars == {"a", " ", NL}

Bodies == UNION {[1..n -> BodyChars] : n \in 0..MaxBody}

InDir == <<"i", "n">>

OutDir == <<"o", "u", "t">>

\* Entry names of a source directory
EntryNames ==
    { <<"a", ".", "d", "o", "c", "x">>,
      <<"~", "t", "e", "m", "p", ".", "d", "o", "c", "x">>,
      <<"b", ".", "t", "x", "t">>,
      <<"B", ".", "D", "O", "C", "X">>,
      <<".", "d", "o", "c", "x">>,
      <<"c", ".", "d", "o", "c", "x">> }

\* Entry names that need care in a header: a second dot, a quote, a line break
OddNames ==
    { <<"a", ".", "b", ".", "d", "o", "c", "x">>,
      <<"a", "\"", "b", ".", "d", "o", "c", "x">>,
      <<"a", NL, "b", ".", "d", "o", "c", "x">> }

FmPaths ==
    LET names == EntryNames \cup OddNames
    IN  names \cup {PathJoin(InDir, n) : n \in names}

IsoTimes ==
    { <<"2", "0", "2", "6", "-", "1", "1", "-", "0", "3", "T",
        "1", "6", ":", "0", "5", ":", "2", "3", ".", "0", "0", "0", "Z">>,
      <<"2", "0", "2", "7", "-", "0", "1", "-", "0", "1", "T",
        "0", "0", ":", "0", "0", ":", "0", "0", ".", "0", "0", "0", "Z">> }

FmInit ==
    /\ fmPath \in FmPaths
    /\ fmBody \in Bodies
    /\ fmNow = <<>>
    /\ fmOut = <<>>
    /\ fmPc = "ready"
    /\ PostIdle
    /\ CvIdle
    /\ SvIdle

\* const mdxContent = this.addMdxFrontmatter(markdown, inputPath)
Compose ==
    /\ fmPc = "ready"
    /\ \E iso \in IsoTimes :
          /\ fmNow' = iso
          /\ fmOut' = addMdxFrontmatter(fmBody, fmPath, iso)
    /\ fmPc' = "done"
    /\ UNCHANGED <<fmPath, fmBody, ppVars, cvVars, svVars>>

FmNext == Compose

SpecFm == FmInit /\ [][FmNext]_vars

(***************************************************************************)
(* convertDocxToMdx, index.js 54-99, and convertDirectory, index.js 129-171*)
(***************************************************************************)
DocxExt == <<".", "d", "o", "c", "x">>

MdxExt == <<".", "m", "d", "x">>

\* String.prototype.toLowerCase, on the letters of the model
LowerChar(c) ==
    CASE c = "B" -> "b"
      [] c = "C" -> "c"
      [] c = "D" -> "d"
      [] c = "O" -> "o"
      [] c = "X" -> "x"
      [] OTHER -> c

ToLowerCase(s) == [j \in 1..Len(s) |-> LowerChar(s[j])]

StartsWith(s, prefix) ==
    /\ Len(prefix) <= Len(s)
    /\ SubSeq(s, 1, Len(prefix)) = prefix

\* The filter without its temporary-file test
IsDocxFileAnyPrefix(file) == ToLowerCase(ExtName(file)) = DocxExt

\* files.filter(file => path.extname(file).toLowerCase() === '.docx' &&
\*                      !path.basename(file).startsWith('~'))
IsDocxFile(file) ==
    /\ ToLowerCase(ExtName(file)) = DocxExt
    /\ ~StartsWith(LastComponent(file), <<"~">>)

\* path.join(path.dirname(inputPath), `${inputName}.mdx`)
DefaultOutputPath(inputPath) ==
    LET cuts == {j \in 1..Len(inputPath) : inputPath[j] = "/"}
        inputName == BaseName(inputPath, ExtName(inputPath))
    IN  IF cuts = {} THEN inputName \o MdxExt
        ELSE SubSeq(inputPath, 1, SetMax(cuts)) \o inputName \o MdxExt

\* path.join(outputDir, `${fileName}.mdx`)
BatchOutputPath(outputDir, file) ==
    PathJoin(outputDir, BaseName(file, ExtName(file)) \o MdxExt)

\* The loop making the directory before its first file only
MkdirOnlyOnce(outputDir, i) == outputDir # <<>> /\ i = 1

\* if (outputDir) { await fs.mkdir(outputDir, { recursive: true }); ... },
\* in the iteration for docxFiles[i]
MkdirBeforeFile(outputDir, i) == outputDir # <<>>

\* The existence check with its outcome ignored
AfterAccessUnchecked(ok) == "extract"

\* await fs.access(inputPath): a rejection leaves the try block
AfterAccess(ok) == IF ok THEN "extract" ELSE "catch"

\* A catch block that throws an error of its own
CatchWrap(error) == "ECONVERT"

\* catch (error) { console.error(...); throw error; }
CatchRethrow(error) == error

\* An aggregation that puts the newest path first
PushFront(outputPaths, convertedPath) == <<convertedPath>> \o outputPaths

\* outputPaths.push(convertedPath)
PushConverted(outputPaths, convertedPath) == Append(outputPaths, convertedPath)

\* One call made or one line logged
Event(op, file, out, ok, err) ==
    [op |-> op, file |-> file, out |-> out, ok |-> ok, err |-> err]

\* What the extractor and the renderer make of a document: their output for
\* two documents, one of them empty
Rendered == { <<"#", " ", " ", "a", NL, NL, NL, "-", NL, "a">>, <<>> }

SetFlow(idx, pc, in, out, outputs, result, thrown, log) ==
    /\ cvIdx' = idx
    /\ cvPc' = pc
    /\ cvIn' = in
    /\ cvOut' = out
    /\ cvOutputPaths' = outputs
    /\ cvResult' = result
    /\ cvThrown' = thrown
    /\ cvLog' = log

\* The loop body up to its first await, for docx[i]
Begin(docx, i, outputs, log) ==
    SetFlow(i, IF MkdirBeforeFile(cvOutDir, i) THEN "mkdir" ELSE "access",
            PathJoin(InDir, docx[i]), <<>>, outputs, cvResult, cvThrown, log)

\* The end of one iteration: the next file, or the return of outputPaths
Advance(outputs, log) ==
    IF cvIdx + 1 > Len(cvDocx)
    THEN SetFlow(cvIdx, "returned", <<>>, <<>>, outputs, outputs, cvThrown,
                 Append(log, Event("logConverted", cvOutDir, <<>>, TRUE, "none")))
    ELSE Begin(cvDocx, cvIdx + 1, outputs, log)

\* convertDocxToMdx rejects: its catch block, then its caller
ConvertThrows(error, log) ==
    LET thrown == CatchRethrow(error)
        log2 == log \o << Event("logConvertError", cvIn, cvOut, FALSE, error),
                          Event("throw", cvIn, cvOut, FALSE, thrown) >>
    IN  IF cvMode = "single"
        THEN SetFlow(cvIdx, "thrown", cvIn, cvOut, cvOutputPaths, cvResult,
                     thrown, log2)
        ELSE Advance(cvOutputPaths,
                     Append(log2, Event("logFileFailed", cvIn, cvOut, FALSE, thrown)))

\* convertDocxToMdx resolves with outputPath
ConvertReturns(log) ==
    LET log2 == Append(log, Event("return", cvIn, cvOut, TRUE, "none"))
    IN  IF cvMode = "single"
        THEN SetFlow(cvIdx, "returned", cvIn, cvOut, cvOutputPaths, <<cvOut>>,
                     cvThrown, log2)
        ELSE Advance(PushConverted(cvOutputPaths, cvOut), log2)

\* const files = await fs.readdir(inputDir), and what follows up to the next
\* await
ReadDirDone ==
    /\ cvPc = "readdir"
    /\ \E ok \in BOOLEAN :
          LET log1 == Append(cvLog, Event("readdir", InDir, <<>>, ok,
                                          IF ok THEN "none" ELSE "ENOTDIR"))
              docx == SelectSeq(cvListing, IsDocxFile)
          IN  IF ~ok
              THEN /\ cvDocx' = <<>>
                   /\ SetFlow(0, "thrown", <<>>, <<>>, <<>>, <<>>, "ENOTDIR",
                              Append(log1, Event("logDirError", InDir, <<>>,
                                                 FALSE, "ENOTDIR")))
              ELSE /\ cvDocx' = docx
                   /\ IF docx = <<>>
                      THEN SetFlow(0, "returned", <<>>, <<>>, <<>>, <<>>, "none",
                                   Append(log1, Event("logNoFiles", InDir, <<>>,
                                                      TRUE, "none")))
                      ELSE Begin(docx, 1, <<>>, log1)
    /\ UNCHANGED <<cvMode, cvListing, cvOutDir, cvMd, cvFiles, cvDirs, cvNow>>

\* await fs.mkdir(outputDir, { recursive: true }) and the output path; a
\* rejection reaches the catch block of convertDirectory
MkdirDone ==
    /\ cvPc = "mkdir"
    /\ \E ok \in BOOLEAN :
          LET log1 == Append(cvLog, Event("mkdir", cvOutDir, <<>>, ok,
                                          IF ok THEN "none" ELSE "EACCES"))
          IN  IF ok
              THEN /\ cvDirs' = cvDirs \cup {cvOutDir}
                   /\ SetFlow(cvIdx, "access", cvIn,
                              BatchOutputPath(cvOutDir, cvDocx[cvIdx]),
                              cvOutputPaths, cvResult, cvThrown, log1)
              ELSE /\ cvDirs' = cvDirs
                   /\ SetFlow(cvIdx, "thrown", cvIn, cvOut, cvOutputPaths,
                              cvResult, "EACCES",
                              Append(log1, Event("logDirError", cvOutDir, <<>>,
                                                 FALSE, "EACCES")))
    /\ UNCHANGED <<cvMode, cvListing, cvOutDir, cvDocx, cvMd, cvFiles, cvNow>>

\* await fs.access(inputPath)
AccessDone ==
    /\ cvPc = "access"
    /\ \E ok \in BOOLEAN :
          LET log1 == Append(cvLog, Event("access", cvIn, cvOut, ok,
                                          IF ok THEN "none" ELSE "ENOENT"))
          IN  IF AfterAccess(ok) = "extract"
              THEN SetFlow(cvIdx, "extract", cvIn, cvOut, cvOutputPaths,
                           cvResult, cvThrown, log1)
              ELSE ConvertThrows("ENOENT", log1)
    /\ UNCHANGED <<cvMode, cvListing, cvOutDir, cvDocx, cvMd, cvFiles, cvDirs,
                   cvNow>>

\* const result = await mammoth.convertToHtml({ path: inputPath })
ExtractDone ==
    /\ cvPc = "extract"
    /\ \E ok \in BOOLEAN :
          LET log1 == Append(cvLog, Event("extract", cvIn, cvOut, ok,
                                          IF ok THEN "none" ELSE "EBADZIP"))
          IN  IF ok
              THEN SetFlow(cvIdx, "render", cvIn, cvOut, cvOutputPaths,
                           cvResult, cvThrown, log1)
              ELSE ConvertThrows("EBADZIP", log1)
    /\ UNCHANGED <<cvMode, cvListing, cvOutDir, cvDocx, cvMd, cvFiles, cvDirs,
                   cvNow>>

\* turndown, postProcessForMdx, the output path and addMdxFrontmatter
RenderDone ==
    /\ cvPc = "render"
    /\ \/ \E md \in Rendered :
             /\ cvMd' = addMdxFrontmatter(postProcessForMdx(md), cvIn, cvNow)
             /\ SetFlow(cvIdx, "write", cvIn,
                        IF cvOut = <<>> THEN DefaultOutputPath(cvIn) ELSE cvOut,
                        cvOutputPaths, cvResult, cvThrown,
                        Append(cvLog, Event("render", cvIn, cvOut, TRUE, "none")))
       \/ /\ cvMd' = cvMd
          /\ ConvertThrows("ETURNDOWN",
                           Append(cvLog, Event("render", cvIn, cvOut, FALSE,
                                               "ETURNDOWN")))
    /\ UNCHANGED <<cvMode, cvListing, cvOutDir, cvDocx, cvFiles, cvDirs, cvNow>>

\* await fs.writeFile(outputPath, mdxContent, 'utf8'): it writes the file, or
\* fails before opening it, or fails after truncating it
WriteDone ==
    /\ cvPc = "write"
    /\ \/ /\ cvFiles' = (cvOut :> cvMd) @@ cvFiles
          /\ ConvertReturns(Append(cvLog, Event("write", cvIn, cvOut, TRUE, "none")))
       \/ \E opened \in BOOLEAN :
             /\ cvFiles' = IF opened THEN (cvOut :> <<>>) @@ cvFiles ELSE cvFiles
             /\ ConvertThrows("ENOSPC",
                              Append(cvLog, Event("write", cvIn, cvOut, FALSE,
                                                  "ENOSPC")))
    /\ UNCHANGED <<cvMode, cvListing, cvOutDir, cvDocx, cvMd, cvDirs, cvNow>>

(***************************************************************************)
(* The calls of the converter                                              *)
(***************************************************************************)
MaxFiles == 3

Injective(f) == \A a, b \in DOMAIN f : f[a] = f[b] => a = b

Listings ==
    {l \in UNION {[1..n -> EntryNames] : n \in 0..MaxFiles} : Injective(l)}

SinglePaths ==
    { <<"a", ".", "d", "o", "c", "x">>,
      PathJoin(InDir, <<"a", ".", "b", ".", "d", "o", "c", "x">>) }

SingleOutputs == { <<>>, PathJoin(OutDir, <<"x", ".", "m", "d", "x">>) }

CvInit ==
    /\ cvMode \in {"single", "batch"}
    /\ IF cvMode = "batch"
       THEN /\ cvListing \in Listings
            /\ cvOutDir \in {<<>>, OutDir}
            /\ cvPc = "readdir"
            /\ cvIn = <<>>
            /\ cvOut = <<>>
       ELSE /\ cvListing = <<>>
            /\ cvOutDir = <<>>
            /\ cvPc = "access"
            /\ cvIn \in SinglePaths
            /\ cvOut \in SingleOutputs
    /\ cvDocx = <<>>
    /\ cvIdx = 0
    /\ cvMd = <<>>
    /\ cvOutputPaths = <<>>
    /\ cvFiles = <<>>
    /\ cvDirs = {}
    /\ cvLog = <<>>
    /\ cvResult = <<>>
    /\ cvThrown = "none"
    /\ cvNow \in IsoTimes
    /\ PostIdle
    /\ FmIdle
    /\ SvIdle

CvNext ==
    \/ ReadDirDone /\ UNCHANGED <<ppVars, fmVars, svVars>>
    \/ MkdirDone /\ UNCHANGED <<ppVars, fmVars, svVars>>
    \/ AccessDone /\ UNCHANGED <<ppVars, fmVars, svVars>>
    \/ ExtractDone /\ UNCHANGED <<ppVars, fmVars, svVars>>
    \/ RenderDone /\ UNCHANGED <<ppVars, fmVars, svVars>>
    \/ WriteDone /\ UNCHANGED <<ppVars, fmVars, svVars>>

Spec == CvInit /\ [][CvNext]_vars

(***************************************************************************)
(* The upload server, server.js: multer's disk storage (11-18) and the     *)
(* POST /convert handler (52-96).  A path of uploads/ is the record of the *)
(* parts of its name, `${prefix}${t}-${name}`; Date.now() has a fixed      *)
(* number of digits, so two names are equal exactly when their parts are.  *)
(***************************************************************************)
MaxReq == 2

MaxClock == 1

Reqs == 1..MaxReq

UploadNames == { <<"a", ".", "d", "o", "c", "x">>, <<"B", ".", "D", "O", "C", "X">> }

\* cb(null, Date.now() + '-' + file.originalname), under 'uploads/'
UploadPath(now, originalname) ==
    [prefix |-> "", t |-> now, name |-> originalname]

\* req.file.originalname.replace(/\.docx$/i, '.mdx')
OutputFileName(originalname) ==
    IF /\ Len(originalname) >= Len(DocxExt)
       /\ ToLowerCase(SubSeq(originalname, Len(originalname) - Len(DocxExt) + 1,
                             Len(originalname))) = DocxExt
    THEN SubSeq(originalname, 1, Len(originalname) - Len(DocxExt)) \o MdxExt
    ELSE originalname

\* path.join('uploads', `converted-${Date.now()}-${outputFileName}`)
ConvertedPath(now, outputFileName) ==
    [prefix |-> "converted-", t |-> now, name |-> outputFileName]

NoPath == [prefix |-> "none", t |-> 0, name |-> <<>>]

NoResponse == [status |-> 0, body |-> 0]

\* fs.unlink(path) by request r: the file goes, whoever wrote it
Unlinked(path) == [q \in DOMAIN svFs \ {path} |-> svFs[q]]

\* The requests still in flight whose file request r removes with `path`
TakenBy(r, path) ==
    IF path \in DOMAIN svFs /\ svFs[path].owner # r
       /\ svPc[svFs[path].owner] # "answered"
    THEN {<<r, svFs[path].owner>>}
    ELSE {}

SvInit ==
    /\ svClock = 0
    /\ svPc = [r \in Reqs |-> "new"]
    /\ svName \in [Reqs -> UploadNames]
    /\ svHasFile \in [Reqs -> BOOLEAN]
    /\ svUp = [r \in Reqs |-> NoPath]
    /\ svOutPath = [r \in Reqs |-> NoPath]
    /\ svData = [r \in Reqs |-> 0]
    /\ svBody = [r \in Reqs |-> 0]
    /\ svFs = <<>>
    /\ svSent = [r \in Reqs |-> NoResponse]
    /\ svTaken = {}
    /\ PostIdle
    /\ FmIdle
    /\ CvIdle

\* A millisecond passes
Tick ==
    /\ svClock < MaxClock
    /\ svClock' = svClock + 1
    /\ UNCHANGED <<svPc, svName, svHasFile, svUp, svOutPath, svData, svBody, svFs,
                   svSent, svTaken>>

\* upload.single('docx'): multer names the file and stores it
Receive(r) ==
    /\ svPc[r] = "new"
    /\ svPc' = [svPc EXCEPT ![r] = "stored"]
    /\ IF svHasFile[r]
       THEN LET path == UploadPath(svClock, svName[r])
            IN  /\ svUp' = [svUp EXCEPT ![r] = path]
                /\ svFs' = (path :> [owner |-> r, data |-> r]) @@ svFs
       ELSE UNCHANGED <<svUp, svFs>>
    /\ UNCHANGED <<svClock, svName, svHasFile, svOutPath, svData, svBody, svSent,
                   svTaken>>

\* The handler up to its first await: 400 without a file, else the output
\* path and the call of convertDocxToMdx
Start(r) ==
    /\ svPc[r] = "stored"
    /\ IF ~svHasFile[r]
       THEN /\ svPc' = [svPc EXCEPT ![r] = "answered"]
            /\ svSent' = [svSent EXCEPT ![r] = [status |-> 400, body |-> 0]]
            /\ UNCHANGED svOutPath
       ELSE /\ svPc' = [svPc EXCEPT ![r] = "access"]
            /\ svOutPath' = [svOutPath EXCEPT ![r] =
                                ConvertedPath(svClock, OutputFileName(svName[r]))]
            /\ UNCHANGED svSent
    /\ UNCHANGED <<svClock, svName, svHasFile, svUp, svData, svBody, svFs, svTaken>>

\* await fs.access(inputPath) in convertDocxToMdx
Access(r) ==
    /\ svPc[r] = "access"
    /\ svPc' = [svPc EXCEPT ![r] =
                   IF svUp[r] \in DOMAIN svFs THEN "extract" ELSE "cleanup"]
    /\ UNCHANGED <<svClock, svName, svHasFile, svUp, svOutPath, svData, svBody,
                   svFs, svSent, svTaken>>

\* await mammoth.convertToHtml({ path: inputPath }), then the renderer: the
\* document at inputPath is read, and may be one the extractor rejects
Extract(r) ==
    /\ svPc[r] = "extract"
    /\ \E ok \in BOOLEAN :
          IF ok /\ svUp[r] \in DOMAIN svFs
          THEN /\ svPc' = [svPc EXCEPT ![r] = "write"]
               /\ svData' = [svData EXCEPT ![r] = svFs[svUp[r]].data]
          ELSE /\ svPc' = [svPc EXCEPT ![r] = "cleanup"]
               /\ UNCHANGED svData
    /\ UNCHANGED <<svClock, svName, svHasFile, svUp, svOutPath, svBody, svFs,
                   svSent, svTaken>>

\* await fs.writeFile(outputPath, mdxContent, 'utf8') in convertDocxToMdx: it
\* writes the file, or fails before opening it, or fails after truncating it
Write(r) ==
    /\ svPc[r] = "write"
    /\ \/ /\ svFs' = (svOutPath[r] :> [owner |-> r, data |-> svData[r]]) @@ svFs
          /\ svPc' = [svPc EXCEPT ![r] = "read"]
       \/ \E opened \in BOOLEAN :
             /\ svFs' = IF opened
                        THEN (svOutPath[r] :> [owner |-> r, data |-> 0]) @@ svFs
                        ELSE svFs
             /\ svPc' = [svPc EXCEPT ![r] = "cleanup"]
    /\ UNCHANGED <<svClock, svName, svHasFile, svUp, svOutPath, svData, svBody,
                   svSent, svTaken>>

\* const mdxContent = await fs.readFile(outputPath, 'utf-8')
Read(r) ==
    /\ svPc[r] = "read"
    /\ IF svOutPath[r] \in DOMAIN svFs
       THEN /\ svBody' = [svBody EXCEPT ![r] = svFs[svOutPath[r]].data]
            /\ svPc' = [svPc EXCEPT ![r] = "unlinkInput"]
       ELSE /\ svPc' = [svPc EXCEPT ![r] = "cleanup"]
            /\ UNCHANGED svBody
    /\ UNCHANGED <<svClock, svName, svHasFile, svUp, svOutPath, svData, svFs,
                   svSent, svTaken>>

\* await fs.unlink(inputPath)
UnlinkInput(r) ==
    /\ svPc[r] = "unlinkInput"
    /\ IF svUp[r] \in DOMAIN svFs
       THEN /\ svFs' = Unlinked(svUp[r])
            /\ svTaken' = svTaken \cup TakenBy(r, svUp[r])
            /\ svPc' = [svPc EXCEPT ![r] = "unlinkOutput"]
       ELSE /\ svPc' = [svPc EXCEPT ![r] = "cleanup"]
            /\ UNCHANGED <<svFs, svTaken>>
    /\ UNCHANGED <<svClock, svName, svHasFile, svUp, svOutPath, svData, svBody,
                   svSent>>

\* await fs.unlink(outputPath), then res.send(mdxContent)
UnlinkOutput(r) ==
    /\ svPc[r] = "unlinkOutput"
    /\ IF svOutPath[r] \in DOMAIN svFs
       THEN /\ svFs' = Unlinked(svOutPath[r])
            /\ svTaken' = svTaken \cup TakenBy(r, svOutPath[r])
            /\ svPc' = [svPc EXCEPT ![r] = "answered"]
            /\ svSent' = [svSent EXCEPT ![r] = [status |-> 200, body |-> svBody[r]]]
       ELSE /\ svPc' = [svPc EXCEPT ![r] = "cleanup"]
            /\ UNCHANGED <<svFs, svTaken, svSent>>
    /\ UNCHANGED <<svClock, svName, svHasFile, svUp, svOutPath, svData, svBody>>

\* catch (error): try { await fs.unlink(req.file.path) } catch { log }, then
\* res.status(500).send(...)
Cleanup(r) ==
    /\ svPc[r] = "cleanup"
    /\ IF svUp[r] \in DOMAIN svFs
       THEN /\ svFs' = Unlinked(svUp[r])
            /\ svTaken' = svTaken \cup TakenBy(r, svUp[r])
       ELSE UNCHANGED <<svFs, svTaken>>
    /\ svPc' = [svPc EXCEPT ![r] = "answered"]
    /\ svSent' = [svSent EXCEPT ![r] = [status |-> 500, body |-> 0]]
    /\ UNCHANGED <<svClock, svName, svHasFile, svUp, svOutPath, svData, svBody>>

SvNext ==
    \/ Tick /\ UNCHANGED <<ppVars, fmVars, cvVars>>
    \/ \E r \in Reqs : Receive(r) /\ UNCHANGED <<ppVars, fmVars, cvVars>>
    \/ \E r \in Reqs : Start(r) /\ UNCHANGED <<ppVars, fmVars, cvVars>>
    \/ \E r \in Reqs : Access(r) /\ UNCHANGED <<ppVars, fmVars, cvVars>>
    \/ \E r \in Reqs : Extract(r) /\ UNCHANGED <<ppVars, fmVars, cvVars>>
    \/ \E r \in Reqs : Write(r) /\ UNCHANGED <<ppVars, fmVars, cvVars>>
    \/ \E r \in Reqs : Read(r) /\ UNCHANGED <<ppVars, fmVars, cvVars>>
    \/ \E r \in Reqs : UnlinkInput(r) /\ UNCHANGED <<ppVars, fmVars, cvVars>>
    \/ \E r \in Reqs : UnlinkOutput(r) /\ UNCHANGED <<ppVars, fmVars, cvVars>>
    \/ \E r \in Reqs : Cleanup(r) /\ UNCHANGED <<ppVars, fmVars, cvVars>>

SpecServer == SvInit /\ [][SvNext]_vars

(***************************************************************************)
(* Properties of the front-matter composer                                 *)
(***************************************************************************)
RECURSIVE SplitLines(_)
SplitLines(s) ==
    LET nls == {j \in 1..Len(s) : s[j] = NL}
    IN  IF nls = {} THEN <<s>>
        ELSE <<Slice(s, 1, SetMin(nls))>>
             \o SplitLines(Slice(s, SetMin(nls) + 1, Len(s) + 1))

\* The text that follows the first n lines of s
RECURSIVE AfterLines(_, _)
AfterLines(s, n) ==
    LET nls == {j \in 1..Len(s) : s[j] = NL}
    IN  IF n = 0 \/ nls = {} THEN s
        ELSE AfterLines(Slice(s, SetMin(nls) + 1, Len(s) + 1), n - 1)

\* The base name of a path with its extension stripped: the last component
\* cut before its last dot, unless that dot is its first character
TitleOf(path) ==
    LET base == LastComponent(path)
        cuts == {n \in 1..(Len(base) - 1) :
                    /\ base[n + 1] = "."
                    /\ \A j \in (n + 2)..Len(base) : base[j] # "."}
    IN  IF cuts = {} THEN base ELSE SubSeq(base, 1, SetMin(cuts))

\* The header lines, the single blank line and the body, read line by line
WellFormedDocument(out, path, iso, body) ==
    LET ls == SplitLines(out)
    IN  /\ Len(ls) >= 7
        /\ ls[1] = Delimiter
        /\ ls[2] = TitleKey \o Quoted(TitleOf(path))
        /\ ls[3] = DescriptionLine
        /\ ls[4] = DateKey \o Quoted(SubSeq(iso, 1, 10))
        /\ ls[5] = Delimiter
        /\ ls[6] = <<>>
        /\ ls[7] # <<>>
        /\ AfterLines(out, 6) = body

HasLineBreak(s) == \E j \in 1..Len(s) : s[j] = NL

\* C8 as stated: for every source path and every non-empty body the output
\* is a '---' line, the title, description and date lines, a second '---'
\* line, exactly one blank line, and then the body verbatim.
C8_HeaderForEveryBody ==
    (fmPc = "done" /\ fmBody # <<>>) =>
        WellFormedDocument(fmOut, fmPath, fmNow, fmBody)

\* C8 as amended: the same, for every source path whose base name holds no
\* line break and every non-empty body that does not begin with a line break.
C8_HeaderForBlockBody ==
    (/\ fmPc = "done"
     /\ fmBody # <<>>
     /\ fmBody[1] # NL
     /\ ~HasLineBreak(LastComponent(fmPath))) =>
        WellFormedDocument(fmOut, fmPath, fmNow, fmBody)

\* A header composed for a path in a directory and a body of several lines
C8_Witness ==
    /\ fmPc = "done"
    /\ fmPath = PathJoin(InDir, <<"a", ".", "b", ".", "d", "o", "c", "x">>)
    /\ fmBody = <<"a", NL, "a">>
    /\ WellFormedDocument(fmOut, fmPath, fmNow, fmBody)

(***************************************************************************)
(* Properties of the post-processor                                        *)
(***************************************************************************)
StartsWithSpace(s) == s # <<>> /\ s[1] \in Space

\* C7 as stated: the post-processor is idempotent, for every input string:
\* applying it to its own output changes nothing.
C7_IdempotentAll == ppPc = "twice" => ppTwice = ppOut

\* C7 as amended: the post-processor is idempotent on every input that does
\* not begin with a whitespace character.
C7_IdempotentUnindented ==
    (ppPc = "twice" /\ ~StartsWithSpace(ppIn)) => ppTwice = ppOut

\* An input without leading whitespace that the post-processor rewrote, and
\* whose result the second application left alone
C7_Witness ==
    /\ ppPc = "twice"
    /\ ~StartsWithSpace(ppIn)
    /\ ppOut # ppIn
    /\ ppTwice = ppOut

\* The positions of the characters of s that are not whitespace, in order
RECURSIVE InkFrom(_, _)
InkFrom(s, i) ==
    IF i > Len(s) THEN <<>>
    ELSE IF s[i] \in Space THEN InkFrom(s, i + 1)
         ELSE <<i>> \o InkFrom(s, i + 1)

Ink(s) == InkFrom(s, 1)

\* The whitespace between the k-th and the (k+1)-th non-whitespace character
Gap(s, k) == LET ink == Ink(s) IN Slice(s, ink[k] + 1, ink[k + 1])

\* A run of three or more newlines and nothing else
IsBlankRun(g) == Len(g) >= 3 /\ \A j \in 1..Len(g) : g[j] = NL

HasTripleNewline(s) ==
    \E j \in 1..(Len(s) - 2) : s[j] = NL /\ s[j + 1] = NL /\ s[j + 2] = NL

\* Position i of s ends an opening code fence: three backticks and an
\* optional language tag
EndsFence(s, i) ==
    \E f \in 1..(i - 2) :
        /\ s[f] = BT /\ s[f + 1] = BT /\ s[f + 2] = BT
        /\ \A j \in (f + 3)..i : s[j] \in WordChars

\* The gaps of the input that are runs of three or more newlines
BlankRuns(s) == {k \in 1..(Len(Ink(s)) - 1) : IsBlankRun(Gap(s, k))}

\* C10 as stated: wherever the input has a run of three or more newlines the
\* output has exactly two newlines at that location (between the same two
\* non-blank characters), and the output has no run of three or more newlines.
C10_ExactlyOneBlankLine ==
    ppPc # "ready" =>
        /\ ~HasTripleNewline(ppOut)
        /\ Len(Ink(ppOut)) = Len(Ink(ppIn))
        /\ \A k \in BlankRuns(ppIn) : Gap(ppOut, k) = <<NL, NL>>

\* C10 as amended: the blank-line collapse turns every run of three or more
\* newlines into exactly two and the output has no run of three or more
\* newlines; at the place of such a run the output has exactly two newlines
\* unless the run follows an opening code fence, a '-' or a '#', where a later
\* rule may leave one newline or a single space instead.
C10_AtMostOneBlankLine ==
    ppPc # "ready" =>
        /\ ~HasTripleNewline(ppOut)
        /\ Len(Ink(ppOut)) = Len(Ink(ppIn))
        /\ \A k \in BlankRuns(ppIn) :
              LET last == Ink(ppIn)[k]
              IN  /\ Gap(CollapseBlankLines(ppIn), k) = <<NL, NL>>
                  /\ Gap(ppOut, k) \in {<<NL, NL>>, <<NL>>, <<" ">>}
                  /\ Gap(ppOut, k) = <<NL>> => EndsFence(ppIn, last)
                  /\ Gap(ppOut, k) = <<" ">> => ppIn[last] \in {"-", "#"}

\* An input with a run of three newlines between two blocks, collapsed to
\* exactly one blank line in the output
C10_Witness ==
    /\ ppPc = "once"
    /\ \E k \in BlankRuns(ppIn) : Gap(ppOut, k) = <<NL, NL>>

(***************************************************************************)
(* Properties of the converter                                             *)
(***************************************************************************)
Steps == {"access", "extract", "render", "write"}

\* The positions of the log that hold a call of `op`
Calls(op) == {n \in 1..Len(cvLog) : cvLog[n].op = op}

\* The positions of the log where `op` was called for the input path `file`
CallsFor(op, file) == {n \in Calls(op) : cvLog[n].file = file}

\* The positions of the log where a step of a single-file conversion failed
FailedSteps == {n \in 1..Len(cvLog) : cvLog[n].op \in Steps /\ ~cvLog[n].ok}

ReadDirSucceeded == \E n \in Calls("readdir") : cvLog[n].ok

\* Two letters that differ at most in case
SameLetter(a, b) ==
    \/ a = b
    \/ {a, b} \in {{"b", "B"}, {"c", "C"}, {"d", "D"}, {"o", "O"}, {"x", "X"}}

\* s ends with suffix, compared case-insensitively
EndsWithIgnoringCase(s, suffix) ==
    /\ Len(suffix) <= Len(s)
    /\ \A j \in 1..Len(suffix) :
          SameLetter(s[Len(s) - Len(suffix) + j], suffix[j])

FileA == <<"a", ".", "d", "o", "c", "x">>

FileTemp == <<"~", "t", "e", "m", "p", ".", "d", "o", "c", "x">>

FileTxt == <<"b", ".", "t", "x", "t">>

\* The destination of an entry of the source directory: the destination
\* directory, or else the source directory, and the name with .mdx for its
\* extension
DestinationOf(file) ==
    PathJoin(IF cvOutDir # <<>> THEN cvOutDir ELSE InDir, TitleOf(file) \o MdxExt)

Converted(file) ==
    \E n \in CallsFor("write", PathJoin(InDir, file)) : cvLog[n].ok

RECURSIVE DestinationsOf(_)
DestinationsOf(files) ==
    IF files = <<>> THEN <<>>
    ELSE <<DestinationOf(Head(files))>> \o DestinationsOf(Tail(files))

\* C1: in batch mode no failure while processing one eligible file (existence
\* check, extraction, destination-directory creation, write) is fatal to the
\* batch: it is caught and logged, every remaining eligible file is still
\* attempted and convertDirectory returns normally.
C1_FileFailureNeverFatal ==
    (cvMode = "batch" /\ ReadDirSucceeded) =>
        /\ cvPc # "thrown"
        /\ cvPc = "returned" =>
              \A i \in 1..Len(cvDocx) :
                  CallsFor("access", PathJoin(InDir, cvDocx[i])) # {}
        /\ \A n \in FailedSteps :
              \E m \in CallsFor("logFileFailed", cvLog[n].file) : m > n

\* C2: convertDirectory returns exactly the destination paths of the files
\* whose conversion succeeded, one entry each, in the order of the directory
\* listing; with no eligible file it returns the empty list and does not throw.
C2_ResultIsConvertedInOrder ==
    cvMode = "batch" =>
        /\ cvPc = "returned" =>
              /\ cvResult = DestinationsOf(SelectSeq(cvListing, Converted))
              /\ \A j \in 1..Len(cvResult) : cvResult[j] \in DOMAIN cvFiles
        /\ (ReadDirSucceeded /\ cvDocx = <<>>) =>
              cvPc = "returned" /\ cvResult = <<>>

\* A batch of three eligible files that returned the first and the third
\* after the second failed
C2_Witness ==
    /\ cvMode = "batch"
    /\ cvPc = "returned"
    /\ Len(cvDocx) = 3
    /\ Converted(cvDocx[1]) /\ ~Converted(cvDocx[2]) /\ Converted(cvDocx[3])
    /\ cvResult = <<DestinationOf(cvDocx[1]), DestinationOf(cvDocx[3])>>

\* The entries that were handed to convertDocxToMdx are exactly the selected
\* ones, and the listing a.docx, ~temp.docx, b.txt converts a.docx alone
FilterSelects(Selected(_)) ==
    cvMode = "batch" =>
        /\ ReadDirSucceeded =>
              cvDocx = SelectSeq(cvListing, Selected)
        /\ \A n \in Calls("access") :
              \E i \in 1..Len(cvListing) :
                  /\ Selected(cvListing[i])
                  /\ cvLog[n].file = PathJoin(InDir, cvListing[i])
        /\ (cvPc = "returned" /\ cvListing = <<FileA, FileTemp, FileTxt>>) =>
              /\ Len(cvResult) <= 1
              /\ Converted(FileA) => cvResult = <<DestinationOf(FileA)>>

EligibleAsStated(file) ==
    /\ EndsWithIgnoringCase(file, DocxExt)
    /\ file[1] # "~"

EligibleAsAmended(file) ==
    /\ EndsWithIgnoringCase(file, DocxExt)
    /\ Len(file) > Len(DocxExt)
    /\ file[1] # "~"

\* C3 as stated: the filter selects an entry if and only if its name ends
\* with '.docx', compared case-insensitively, and does not begin with '~';
\* no other entry is handed to the single-file conversion.
C3_FilterBySuffix == FilterSelects(EligibleAsStated)

\* C3 as amended: the filter selects an entry if and only if its name ends
\* with '.docx', compared case-insensitively, is longer than that extension
\* and does not begin with '~'; no other entry is handed to the single-file
\* conversion, and a.docx, ~temp.docx, b.txt yields a one-element result.
C3_FilterByExtension == FilterSelects(EligibleAsAmended)

\* The listing a.docx, ~temp.docx, b.txt converted to a one-element result
C3_Witness ==
    /\ cvMode = "batch"
    /\ cvPc = "returned"
    /\ cvListing = <<FileA, FileTemp, FileTxt>>
    /\ cvDocx = <<FileA>>
    /\ cvResult = <<DestinationOf(FileA)>>

\* C4: when the existence check of a single-file conversion fails, the
\* conversion fails with the not-found error and the extractor is never
\* called, the renderer is never called and no file is written.
C4_NotFoundBeforeExtraction ==
    \A n \in Calls("access") :
        ~cvLog[n].ok =>
            /\ \A op \in {"extract", "render", "write", "return"} :
                  CallsFor(op, cvLog[n].file) = {}
            /\ \E m \in CallsFor("throw", cvLog[n].file) :
                  cvLog[m].err = "ENOENT"
            /\ cvMode = "single" =>
                  /\ cvPc = "thrown"
                  /\ cvThrown = "ENOENT"
                  /\ cvFiles = <<>>

\* A single-file conversion of a missing file, rejected with the not-found
\* error
C4_Witness ==
    /\ cvMode = "single"
    /\ cvPc = "thrown"
    /\ cvThrown = "ENOENT"
    /\ \E n \in CallsFor("access", cvIn) : ~cvLog[n].ok

\* C5: a failure of the existence check, extraction, rendering or write of a
\* single-file conversion reaches the caller as the very same error, each step
\* is attempted at most once, no destination path is returned, and after a
\* failure before the write the destination file is never written.
C5_FailurePropagatesUnchanged ==
    /\ \A n \in FailedSteps :
          /\ n + 2 <= Len(cvLog)
          /\ cvLog[n + 2].op = "throw"
          /\ cvLog[n + 2].file = cvLog[n].file
          /\ cvLog[n + 2].err = cvLog[n].err
          /\ CallsFor("return", cvLog[n].file) = {}
          /\ cvLog[n].op # "write" => CallsFor("write", cvLog[n].file) = {}
          /\ cvMode = "single" =>
                /\ cvPc = "thrown"
                /\ cvThrown = cvLog[n].err
                /\ cvResult = <<>>
                /\ cvLog[n].op # "write" => cvFiles = <<>>
    /\ \A n \in Calls("throw") :
          n - 2 \in FailedSteps /\ cvLog[n - 2].err = cvLog[n].err
    /\ \A n, m \in 1..Len(cvLog) :
          (/\ cvLog[n].op \in Steps
           /\ cvLog[n].op = cvLog[m].op
           /\ cvLog[n].file = cvLog[m].file) => n = m

\* A single-file conversion whose extraction failed, rejected with the
\* extractor's error
C5_Witness ==
    /\ cvMode = "single"
    /\ cvPc = "thrown"
    /\ cvThrown = "EBADZIP"
    /\ \E n \in CallsFor("extract", cvIn) : ~cvLog[n].ok

\* C6 as stated: with a destination directory given, the directory is
\* created exactly once per convertDirectory call, before the first
\* destination file is written.
C6_MkdirOncePerCall ==
    (cvMode = "batch" /\ cvOutDir # <<>> /\ cvPc = "returned" /\ cvDocx # <<>>) =>
        /\ Cardinality(Calls("mkdir")) = 1
        /\ \A w \in Calls("write") : \E m \in Calls("mkdir") : m < w

\* C6 as amended: with a destination directory given, fs.mkdir is called
\* once for every eligible file, right before that file's conversion starts
\* (not once per call, and not at all when no file is eligible), so the
\* directory has been created before each destination file is written;
\* without a destination directory it is never called.
C6_MkdirOncePerFile ==
    cvMode = "batch" =>
        /\ cvOutDir = <<>> => Calls("mkdir") = {}
        /\ cvOutDir # <<>> =>
              /\ \A a \in Calls("access") :
                    /\ a > 1
                    /\ cvLog[a - 1].op = "mkdir"
                    /\ cvLog[a - 1].ok
              /\ \A w \in Calls("write") :
                    /\ cvOutDir \in cvDirs
                    /\ StartsWith(cvLog[w].out, cvOutDir \o <<"/">>)
              /\ cvPc = "returned" =>
                    Cardinality(Calls("mkdir")) = Len(cvDocx)

\* A batch of two eligible files into a destination directory: two calls of
\* fs.mkdir, both files written
C6_Witness ==
    /\ cvMode = "batch"
    /\ cvOutDir # <<>>
    /\ cvPc = "returned"
    /\ Len(cvDocx) = 2
    /\ Cardinality(Calls("mkdir")) = 2
    /\ Len(cvResult) = 2

(***************************************************************************)
(* Properties of the upload server                                         *)
(***************************************************************************)
FilesOf(r) == {q \in DOMAIN svFs : svFs[q].owner = r}

\* C9: once a POST /convert request that carried a file has been answered,
\* with success or with a conversion failure, neither its uploaded file nor
\* its converted output remains in uploads/, under every interleaving of
\* requests; and no request's cleanup removes, and no response returns, a file
\* that belongs to another request in flight.
C9_TemporaryFilesCleanedUp ==
    /\ \A r \in DOMAIN svPc :
          (svPc[r] = "answered" /\ svHasFile[r]) => FilesOf(r) = {}
    /\ svTaken = {}
    /\ \A r \in DOMAIN svSent : svSent[r].status = 200 => svSent[r].body = r

(***************************************************************************)
(* Properties of the heading rule                                          *)
(***************************************************************************)
\* The text the heading rule receives: the output of the three rules before it
BeforeHeadings(s) == FixListItems(FixCodeFences(CollapseBlankLines(s)))

\* The lines of a text, without their line terminators
RECURSIVE LinesOf(_)
LinesOf(s) ==
    LET ends == {j \in 1..Len(s) : s[j] \in LineTerm}
    IN  IF ends = {} THEN <<s>>
        ELSE <<Slice(s, 1, SetMin(ends))>>
             \o LinesOf(Slice(s, SetMin(ends) + 1, Len(s) + 1))

\* The length of the run of '#' a line starts with
MarkerRun(line) == SpanEnd(line, 1, {"#"}) - 1

\* The position of the first character after the spacing that follows the run
TextStart(line) == SpanEnd(line, MarkerRun(line) + 1, Space)

\* A heading line: one to six '#', some spacing, then heading text
IsHeadingLine(line) ==
    /\ MarkerRun(line) \in 1..MaxHeadingLevel
    /\ TextStart(line) > MarkerRun(line) + 1
    /\ TextStart(line) <= Len(line)

\* The heading line with exactly one space between marker run and text
Normalised(line) ==
    Slice(line, 1, MarkerRun(line) + 1) \o <<" ">>
        \o Slice(line, TextStart(line), Len(line) + 1)

\* C11: the heading rule leaves every heading line (one to six '#', spacing,
\* heading text) with exactly one space between the marker run and the text,
\* whatever the spacing was, keeps the heading text, and leaves every other
\* line as it was: the text keeps its lines, each heading line is normalised,
\* each line that does not start with '#' is unchanged, and the post-processor
\* output is that text, trimmed.
C11_HeadingSpacingOnly ==
    ppPc # "ready" =>
        LET before == LinesOf(BeforeHeadings(ppIn))
            after == LinesOf(FixHeadings(BeforeHeadings(ppIn)))
        IN  /\ Len(after) = Len(before)
            /\ \A i \in 1..Len(before) :
                  IsHeadingLine(before[i]) => after[i] = Normalised(before[i])
            /\ \A i \in 1..Len(before) :
                  (before[i] = <<>> \/ before[i][1] # "#") => after[i] = before[i]
            /\ ppOut = Trim(FixHeadings(BeforeHeadings(ppIn)))

====
